---- MODULE Spec2Model ----
(***************************************************************************)
(* Model of drivers/mxc/gpt/imx-gpt.c: the i.MX GPT (v2 register layout)   *)
(* operations, the variant dispatch table, the initialization sequencer    *)
(* gpt_setup and gpt_probe with its process-wide "initialized" latch.      *)
(*                                                                         *)
(* A u32 is modelled as the set of its set bit positions (a subset of      *)
(* 0..31), so that 0xFFFFFFFF and bit 31 are representable and |, &, ~, !  *)
(* and << are computed as the C operators compute them.                    *)
(***************************************************************************)
EXTENDS Integers, FiniteSets, Sequences, TLC

\* ------------------------------------------------------------------ u32
WordBits == 0..31

RECURSIVE U32(_)
\* the u32 whose value is the natural number n (n < 2^31)
U32(n) ==
    IF n = 0 THEN {}
    ELSE (IF n % 2 = 1 THEN {0} ELSE {}) \cup {i + 1 : i \in U32(n \div 2)}

\* 0xFFFFFFFF
U32_MAX == WordBits

\* w << k on 32 bits
Shl(w, k) == {i + k : i \in w} \cap WordBits
\* a | b
BitOr(a, b) == a \cup b
\* a & b
BitAnd(a, b) == a \cap b
\* C's logical negation !w, of type int: 1 when w is zero, else 0
LogNot(w) == IF w = {} THEN U32(1) ELSE U32(0)
\* unsigned a > b
GtU32(a, b) ==
    \E i \in a \ b : \A j \in b \ a : j < i
\* the value of a small u32, used as an array index
RECURSIVE NatOf(_)
NatOf(w) ==
    IF w = {} THEN 0
    ELSE LET i == CHOOSE x \in w : \A y \in w : y <= x
         IN  2 ^ i + NatOf(w \ {i})

\* ------------------------------------------------------ register layout
V2_REG_CR == 0
V2_REG_PR == 4
V2_REG_SR == 8
V2_REG_IR == 12
V2_REG_OCR1 == 16
V2_REG_OCR2 == 20
V2_REG_OCR3 == 24
V2_REG_ICR1 == 28
V2_REG_ICR2 == 32
V2_REG_CNT == 36

RegOffs ==
    {V2_REG_CR, V2_REG_PR, V2_REG_SR, V2_REG_IR, V2_REG_OCR1, V2_REG_OCR2,
     V2_REG_OCR3, V2_REG_ICR1, V2_REG_ICR2, V2_REG_CNT}

V2_CR_EN == Shl(U32(1), 0)
V2_CR_WAITEN == Shl(U32(1), 3)
V2_CR_CLKSRC_IPG_CLK_24M == Shl(U32(5), 6)
V2_CR_FRR == Shl(U32(1), 9)
V2_CR_EN_24M == Shl(U32(1), 10)
V2_IM_MODE_DISABLED == U32(0)
V2_IM_MODE_RISING_EDGE == U32(1)
V2_IM_MODE_FALLING_EDGE == U32(2)
V2_IM_MODE_BOTH == U32(3)
V2_IM1_MODE_OFFSET == 16
V2_IM2_MODE_OFFSET == 18

V2_PR_PRE24M_DIV_3 == Shl(U32(2), 12)
V2_PR_PRE24M_DIV_8 == Shl(U32(7), 12)

V2_SR_OF1 == Shl(U32(1), 0)
V2_SR_OF2 == Shl(U32(1), 1)
V2_SR_OF3 == Shl(U32(1), 2)
V2_SR_IF1 == Shl(U32(1), 3)
V2_SR_IF2 == Shl(U32(1), 4)
V2_SR_ROV == Shl(U32(1), 5)

V2_IR_OF1IE == Shl(U32(1), 0)
V2_IR_OF2IE == Shl(U32(1), 1)
V2_IR_OF3IE == Shl(U32(1), 2)
V2_IR_IF1IE == Shl(U32(1), 3)
V2_IR_IF2IE == Shl(U32(1), 4)
V2_IR_ROVIE == Shl(U32(1), 5)

V2_OM_NUM == 3
V2_IM_NUM == 2

V2_TIMER_RATE_OSC_DIV8 == 3000000

\* errno values returned by gpt_probe
ENOENT == 2
ENXIO == 6
ENOMEM == 12
EINVAL == 22
ENODEV == 19

\* kernel pointer convention: ERR_PTR values are -MAX_ERRNO..-1
MAX_ERRNO == 4095
IS_ERR(p) == p < 0 /\ p >= -MAX_ERRNO
PTR_ERR(p) == p

\* --------------------------------------------- register field encodings
\* the number held in bits lo..hi of a word
Field(w, lo, hi) == NatOf({i - lo : i \in w \cap lo..hi})
\* frequency of the clock CR's CLKSRC field (bits 8:6) selects; only the
\* 24 MHz crystal selection has a frequency fixed by the driver
ClkSrcHz(cr) == IF Field(cr, 6, 8) = 5 THEN 24000000 ELSE 0
\* divisor PR's PRE24M field (bits 15:12) selects: V2_PR_PRE24M_DIV_n is n - 1
Pre24mDiv(pr) == Field(pr, 12, 15) + 1

\* ------------------------------------------------- per-function tables
\* u32 ocr[V2_OM_NUM] of v2_gpt_oc_setup; C index chan - 1 is tuple index chan
ocr == <<V2_REG_OCR1, V2_REG_OCR2, V2_REG_OCR3>>
\* mutant: every channel addresses the first compare register
oc_setup_reg_first(chan) == ocr[0 + 1]
oc_setup_reg(chan) == ocr[(chan - 1) + 1]
oc_setup_invalid(chan) == chan > V2_OM_NUM \/ chan = 0

\* mutant: the entries of channels 2 and 3 are swapped
oc_irq_enable_mask_swapped(chan) ==
    <<V2_IR_OF1IE, V2_IR_OF3IE, V2_IR_OF2IE>>[(chan - 1) + 1]
oc_irq_enable_mask(chan) == <<V2_IR_OF1IE, V2_IR_OF2IE, V2_IR_OF3IE>>[(chan - 1) + 1]
\* mutant: the upper bound is not checked
oc_irq_enable_invalid_zero_only(chan) == chan = 0
oc_irq_enable_invalid(chan) == chan > V2_OM_NUM \/ chan = 0

oc_irq_disable_mask(chan) ==
    <<LogNot(V2_IR_OF1IE), LogNot(V2_IR_OF2IE), LogNot(V2_IR_OF3IE)>>[(chan - 1) + 1]
oc_irq_disable_invalid(chan) == chan > 3 \/ chan = 0

oc_irq_acknowledge_mask(chan) == <<V2_SR_OF1, V2_SR_OF2, V2_SR_OF3>>[(chan - 1) + 1]
oc_irq_acknowledge_invalid(chan) == chan > V2_IM_NUM \/ chan = 0

is_oc_irq_mask(chan) == <<V2_SR_OF1, V2_SR_OF2, V2_SR_OF3>>[(chan - 1) + 1]
is_oc_irq_invalid(chan) == chan > V2_OM_NUM \/ chan = 0

ic_setup_offset(chan) == <<V2_IM1_MODE_OFFSET, V2_IM2_MODE_OFFSET>>[(chan - 1) + 1]
\* mutant: the mode is not checked
ic_setup_invalid_chan_only(chan, mode) == chan > V2_IM_NUM \/ chan = 0
ic_setup_invalid(chan, mode) ==
    chan > V2_IM_NUM \/ chan = 0 \/ GtU32(mode, V2_IM_MODE_BOTH)

ic_irq_enable_mask(chan) == <<V2_IR_IF1IE, V2_IR_IF2IE>>[(chan - 1) + 1]
ic_irq_enable_invalid(chan) == chan > V2_IM_NUM \/ chan = 0

ic_irq_disable_mask(chan) ==
    <<LogNot(V2_IR_IF1IE), LogNot(V2_IR_IF2IE)>>[(chan - 1) + 1]
ic_irq_disable_invalid(chan) == chan > V2_IM_NUM \/ chan = 0

ic_irq_acknowledge_mask(chan) == <<V2_IR_IF1IE, V2_IR_IF2IE>>[(chan - 1) + 1]
ic_irq_acknowledge_invalid(chan) == chan > V2_IM_NUM \/ chan = 0

is_ic_irq_mask(chan) == <<V2_IR_IF1IE, V2_IR_IF2IE>>[(chan - 1) + 1]
is_ic_irq_invalid(chan) == chan > V2_IM_NUM \/ chan = 0

\* mutant: setup leaves the timer running
setup_tctl_cr_running(rate) ==
    BitOr(BitOr(BitOr(V2_CR_WAITEN, V2_CR_EN_24M), V2_CR_CLKSRC_IPG_CLK_24M), V2_CR_EN)
\* cr_val and pr_val computed by v2_gpt_setup_tctl from clk_get_rate(clk_per)
setup_tctl_cr(rate) ==
    IF rate = V2_TIMER_RATE_OSC_DIV8
    THEN BitOr(BitOr(V2_CR_WAITEN, V2_CR_EN_24M), V2_CR_CLKSRC_IPG_CLK_24M)
    ELSE BitOr(BitOr(V2_CR_WAITEN, V2_CR_EN_24M), V2_CR_CLKSRC_IPG_CLK_24M)
\* mutant: the prescaler does not depend on the rate
setup_tctl_pr_always8(rate) == V2_PR_PRE24M_DIV_8
setup_tctl_pr(rate) ==
    IF rate = V2_TIMER_RATE_OSC_DIV8 THEN V2_PR_PRE24M_DIV_8 ELSE V2_PR_PRE24M_DIV_3

\* cr_val |= V2_CR_EN
enable_cr(cr_val) == BitOr(cr_val, V2_CR_EN)
\* cr_val &= !(u32)V2_CR_EN
disable_cr(cr_val) == BitAnd(cr_val, LogNot(V2_CR_EN))
\* mutant: the channel's field is cleared before the mode is put in
ic_setup_cr_replace(cr_val, chan, mode) ==
    BitOr(cr_val \ Shl(V2_IM_MODE_BOTH, ic_setup_offset(chan)),
          Shl(mode, ic_setup_offset(chan)))
\* cr_val |= mode << offset[chan - 1]
ic_setup_cr(cr_val, chan, mode) == BitOr(cr_val, Shl(mode, ic_setup_offset(chan)))

\* ------------------------------------------------------- dispatch table
Slots ==
    {"gpt_setup_tctl", "gpt_enable", "gpt_disable", "gpt_irq_acknowledge",
     "gpt_is_rollover", "gpt_oc_setup", "gpt_oc_irq_enable", "gpt_oc_irq_disable",
     "gpt_oc_irq_acknowledge", "gpt_is_oc_irq", "gpt_ic_setup", "gpt_ic_irq_enable",
     "gpt_ic_irq_disable", "gpt_ic_irq_acknowledge", "gpt_is_ic_irq"}

\* the designated initializers of v2_gpt_data, in source order
v2_gpt_data_init ==
    << <<"gpt_setup_tctl", "v2_gpt_setup_tctl">>,
       <<"gpt_enable", "v2_gpt_enable">>,
       <<"gpt_disable", "v2_gpt_disable">>,
       <<"gpt_irq_acknowledge", "v2_gpt_irq_acknowledge">>,
       <<"gpt_is_rollover", "v2_gpt_is_rollover">>,
       <<"gpt_oc_setup", "v2_gpt_oc_setup">>,
       <<"gpt_oc_irq_enable", "v2_gpt_oc_irq_enable">>,
       <<"gpt_oc_irq_disable", "v2_gpt_oc_irq_disable">>,
       <<"gpt_oc_irq_acknowledge", "v2_gpt_oc_irq_acknowledge">>,
       <<"gpt_ic_setup", "v2_gpt_ic_setup">>,
       <<"gpt_is_ic_irq", "v2_gpt_is_oc_irq">>,
       <<"gpt_ic_irq_enable", "v2_gpt_ic_irq_enable">>,
       <<"gpt_ic_irq_disable", "v2_gpt_ic_irq_disable">>,
       <<"gpt_ic_irq_acknowledge", "v2_gpt_ic_irq_acknowledge">>,
       <<"gpt_is_ic_irq", "v2_gpt_is_ic_irq">> >>

RECURSIVE ApplyInit(_, _)
\* a static struct starts zeroed (NULL members); a later initializer of the
\* same member overrides an earlier one
ApplyInit(tab, inits) ==
    IF inits = <<>> THEN tab
    ELSE ApplyInit([tab EXCEPT ![Head(inits)[1]] = Head(inits)[2]], Tail(inits))

v2_gpt_data == ApplyInit([s \in Slots |-> "NULL"], v2_gpt_data_init)

\* mutant: the compare value goes to channel 2
gpt_setup_calls_oc2 ==
    << [slot |-> "gpt_setup_tctl", chan |-> 0, arg |-> {}],
       [slot |-> "gpt_oc_setup", chan |-> 2, arg |-> U32_MAX],
       [slot |-> "gpt_ic_setup", chan |-> 1, arg |-> V2_IM_MODE_BOTH],
       [slot |-> "gpt_ic_irq_enable", chan |-> 1, arg |-> {}],
       [slot |-> "gpt_enable", chan |-> 0, arg |-> {}] >>
\* mutant: the timer is started right after setup
gpt_setup_calls_enable_early ==
    << [slot |-> "gpt_setup_tctl", chan |-> 0, arg |-> {}],
       [slot |-> "gpt_enable", chan |-> 0, arg |-> {}],
       [slot |-> "gpt_oc_setup", chan |-> 1, arg |-> U32_MAX],
       [slot |-> "gpt_ic_setup", chan |-> 1, arg |-> V2_IM_MODE_BOTH],
       [slot |-> "gpt_ic_irq_enable", chan |-> 1, arg |-> {}] >>
\* the calls gpt_setup makes through the table, in order
gpt_setup_calls ==
    << [slot |-> "gpt_setup_tctl", chan |-> 0, arg |-> {}],
       [slot |-> "gpt_oc_setup", chan |-> 1, arg |-> U32_MAX],
       [slot |-> "gpt_ic_setup", chan |-> 1, arg |-> V2_IM_MODE_BOTH],
       [slot |-> "gpt_ic_irq_enable", chan |-> 1, arg |-> {}],
       [slot |-> "gpt_enable", chan |-> 0, arg |-> {}] >>

\* ---------------------------------------------------------------- bounds
\* API calls made after bind, in total
MaxCalls == 2

\* execution contexts (cores / interrupt vs process context)
Ctx == {1, 2}
\* matching device-tree nodes
Devs == {"gpt1", "gpt2"}

\* chan arguments: 0, every valid channel of either kind, and one past the
\* larger channel count
ChanInputs == 0..(V2_OM_NUM + 1)
\* mode arguments: the four edge modes and the first value past them
ModeInputs ==
    {V2_IM_MODE_DISABLED, V2_IM_MODE_RISING_EDGE, V2_IM_MODE_FALLING_EDGE,
     V2_IM_MODE_BOTH, U32(NatOf(V2_IM_MODE_BOTH) + 1)}
OcVals == {U32(0), U32_MAX, {0, 31}}
\* clk_get_rate(clk_per): the 24 MHz oscillator divided by 8, or undivided
RateInputs == {V2_TIMER_RATE_OSC_DIV8, 24000000}
\* the int a valid struct clk pointer converts to (no ERR_PTR value)
ValidPtrs == {65536, -65536}
\* irq_of_parse_and_map: 0 when no interrupt is mapped
IrqInputs == {0, 30}
\* of_clk_get_by_name: an ERR_PTR or a clock
ClkInputs == {-ENOENT} \cup ValidPtrs
IpgInputs == {-ENOENT, 65536}

\* register contents when the driver first sees the block: the reset values,
\* or what firmware left behind (timer running, every flag pending)
HwReset ==
    [o \in RegOffs |->
        IF o \in {V2_REG_OCR1, V2_REG_OCR2, V2_REG_OCR3} THEN U32_MAX ELSE {}]
HwUsed ==
    [o \in RegOffs |->
        CASE o = V2_REG_CR ->
               BitOr(BitOr(V2_CR_EN, V2_CR_FRR),
                     Shl(V2_IM_MODE_FALLING_EDGE, V2_IM2_MODE_OFFSET))
          [] o = V2_REG_PR -> U32(23)
          [] o = V2_REG_SR -> U32(63)
          [] o = V2_REG_IR -> U32(63)
          [] o = V2_REG_OCR1 -> U32(1000)
          [] OTHER -> {}]
HwBoot == {HwReset, HwUsed}

\* ----------------------------------------------------------------- state
VARIABLES
    regs,         \* regs[d][off]: the register block of device d
    icap_lock,    \* 0 when free, else the context holding the spinlock
    initialized,  \* gpt_probe's static latch
    clk_rate,     \* what clk_get_rate(clk_per) returns
    pc,           \* pc[t]: position of context t
    fn,           \* fn[t]: the function context t is in (or last was in)
    dev,          \* dev[t]: the device imxtm->base maps
    chan,         \* chan[t]: the chan argument
    arg,          \* arg[t]: oc_val or mode
    val,          \* val[t]: the local cr_val / ir_val / sr_val last read
    ret,          \* ret[t]: what the function returned to its caller
    seq,          \* seq[t]: 0, or the number of gpt_setup's current call
    imxtm,        \* imxtm[t]: the struct gpt_probe is filling in
    pret,         \* pret[t]: what t's latest gpt_probe call returned (0 until then)
    held,         \* held[t]: what t's latest gpt_probe call acquired and kept
    timers,       \* devices with a fully constructed imxtm
    ncalls,       \* API calls made
    succeeded,    \* history: some gpt_probe call has returned 0
    cpu,          \* cpu[t]: the core context t runs on
    panel         \* the hx8399c panel: struct himax_panel and its DSI device

callvars == <<fn, dev, chan, arg, ncalls>>
probevars == <<initialized, imxtm, pret, held, timers, succeeded>>
\* what no timer operation changes
restvars == <<clk_rate, cpu, panel>>
vars ==
    <<regs, icap_lock, initialized, clk_rate, pc, fn, dev, chan, arg, val, ret,
      seq, imxtm, pret, held, timers, ncalls, succeeded, cpu, panel>>

NoImxtm ==
    [np |-> "none", base |-> "NULL", irq |-> 0, clk_ipg |-> 0, clk_per |-> 0,
     ipg_on |-> FALSE, per_on |-> FALSE]

\* the panel before himax_panel_probe: no context allocated (devm_kzalloc
\* zeroes struct himax_panel), the reset line not driven by the driver
NoPanel ==
    [pc |-> "unbound",      \* position: "unbound", "idle" or inside a function
     fn |-> "none",         \* the entry point running or last run
     ret |-> 0,             \* its return value
     has_reset |-> FALSE,   \* ctx->reset is a GPIO (not NULL)
     gpio |-> 0,            \* value last driven on the reset line
     prepared |-> FALSE,    \* ctx->prepared
     enabled |-> FALSE,     \* ctx->enabled
     registered |-> FALSE,  \* in the panel registry (drm_panel_add)
     attached |-> FALSE,    \* attached to the DSI host
     step |-> 0,            \* index of the next command of the running function
     log |-> <<>>,          \* DSI commands issued by the running call
     writes |-> <<>>,       \* values the running call drove on the reset line
     shut |-> FALSE]        \* the running call was made by shutdown

\* the timer side before the first gpt_probe
Boot ==
    /\ \E hw \in HwBoot : regs = [d \in Devs |-> hw]
    /\ icap_lock = 0
    /\ initialized = 0
    /\ clk_rate \in RateInputs
    /\ pc = [t \in Ctx |-> "idle"]
    /\ fn = [t \in Ctx |-> "none"]
    /\ dev = [t \in Ctx |-> "none"]
    /\ chan = [t \in Ctx |-> 0]
    /\ arg = [t \in Ctx |-> {}]
    /\ val = [t \in Ctx |-> {}]
    /\ ret = [t \in Ctx |-> "none"]
    /\ seq = [t \in Ctx |-> 0]
    /\ imxtm = [t \in Ctx |-> NoImxtm]
    /\ pret = [t \in Ctx |-> 0]
    /\ held = [t \in Ctx |-> {}]
    /\ timers = {}
    /\ ncalls = 0
    /\ succeeded = FALSE
    /\ panel = NoPanel

\* every context on a core of its own
Init == Boot /\ cpu = [t \in Ctx |-> t - 1]

\* ------------------------------------------------------------ register I/O
readl_relaxed(d, off) == regs[d][off]
\* the status register is write-one-to-clear; every other register stores
writel_relaxed(v, d, off) ==
    [regs EXCEPT ![d][off] = IF off = V2_REG_SR THEN @ \ v ELSE v]

\* mutant: the lock is taken without waiting for its holder to release it
spin_lock_irqsave_nowait(t) == icap_lock' = t
spin_lock_irqsave(t) == icap_lock = 0 /\ icap_lock' = t
spin_unlock_irqrestore(t) == icap_lock' = 0

\* --------------------------------------------------------------- callers
NoArgFns ==
    {"v2_gpt_setup_tctl", "v2_gpt_enable", "v2_gpt_disable",
     "v2_gpt_irq_acknowledge", "v2_gpt_is_rollover"}
OcChanFns ==
    {"v2_gpt_oc_irq_enable", "v2_gpt_oc_irq_disable", "v2_gpt_oc_irq_acknowledge",
     "v2_gpt_is_oc_irq"}
IcChanFns ==
    {"v2_gpt_ic_irq_enable", "v2_gpt_ic_irq_disable", "v2_gpt_ic_irq_acknowledge",
     "v2_gpt_is_ic_irq"}

\* the calls a user of the operations can make
ApiCalls ==
    {[fn |-> f, chan |-> 0, arg |-> {}] : f \in NoArgFns}
    \cup {[fn |-> "v2_gpt_oc_setup", chan |-> c, arg |-> v] :
            c \in ChanInputs, v \in OcVals}
    \cup {[fn |-> f, chan |-> c, arg |-> {}] :
            f \in OcChanFns \cup IcChanFns, c \in ChanInputs}
    \cup {[fn |-> "v2_gpt_ic_setup", chan |-> c, arg |-> m] :
            c \in ChanInputs, m \in ModeInputs}

\* the argument lists with which context t can enter function f now: one of
\* the user calls U on a bound timer when t is idle, or the call gpt_setup
\* makes next through the dispatch table when t is in the sequencer
Calls(t, f, U) ==
    IF pc[t] = "idle"
    THEN IF ncalls < MaxCalls
         THEN {[dev |-> d, chan |-> c.chan, arg |-> c.arg] :
                  d \in timers, c \in {x \in U : x.fn = f}}
         ELSE {}
    ELSE IF /\ pc[t] = "gpt_setup"
            /\ seq[t] <= Len(gpt_setup_calls)
            /\ v2_gpt_data[gpt_setup_calls[seq[t]].slot] = f
         THEN {[dev |-> imxtm[t].base, chan |-> gpt_setup_calls[seq[t]].chan,
                arg |-> gpt_setup_calls[seq[t]].arg]}
         ELSE {}

\* function entry: the arguments become the context's locals
Enter(t, f, c) ==
    /\ fn' = [fn EXCEPT ![t] = f]
    /\ dev' = [dev EXCEPT ![t] = c.dev]
    /\ chan' = [chan EXCEPT ![t] = c.chan]
    /\ arg' = [arg EXCEPT ![t] = c.arg]
    /\ ncalls' = IF pc[t] = "idle" THEN ncalls + 1 ELSE ncalls

\* a later step of function f
InCall(t, f, l) == fn[t] = f /\ pc[t] = l /\ UNCHANGED callvars

Goto(t, l) ==
    /\ pc' = [pc EXCEPT ![t] = l]
    /\ ret' = [ret EXCEPT ![t] = "none"]
    /\ UNCHANGED seq

\* return v to the caller: a user, or gpt_setup, which goes on to its next call
Finish(t, v) ==
    /\ ret' = [ret EXCEPT ![t] = v]
    /\ pc' = [pc EXCEPT ![t] = IF seq[t] = 0 THEN "idle" ELSE "gpt_setup"]
    /\ seq' = [seq EXCEPT ![t] = IF seq[t] = 0 THEN 0 ELSE seq[t] + 1]

\* ------------------------------------------------- timer control operations
v2_gpt_setup_tctl(t, U) ==
    /\ \/ \E c \in Calls(t, "v2_gpt_setup_tctl", U) :
             /\ Enter(t, "v2_gpt_setup_tctl", c)
             /\ regs' = writel_relaxed(U32(0), c.dev, V2_REG_CR)
             /\ Goto(t, "tctl_pr0")
       \/ /\ InCall(t, "v2_gpt_setup_tctl", "tctl_pr0")
          /\ regs' = writel_relaxed(U32(0), dev[t], V2_REG_PR)
          /\ Goto(t, "tctl_cr")
       \/ /\ InCall(t, "v2_gpt_setup_tctl", "tctl_cr")
          /\ regs' = writel_relaxed(setup_tctl_cr(clk_rate), dev[t], V2_REG_CR)
          /\ Goto(t, "tctl_pr")
       \/ /\ InCall(t, "v2_gpt_setup_tctl", "tctl_pr")
          /\ regs' = writel_relaxed(setup_tctl_pr(clk_rate), dev[t], V2_REG_PR)
          /\ Finish(t, "void")
    /\ UNCHANGED <<icap_lock, val, restvars, probevars>>

v2_gpt_enable(t, U) ==
    /\ \/ \E c \in Calls(t, "v2_gpt_enable", U) :
             /\ Enter(t, "v2_gpt_enable", c)
             /\ val' = [val EXCEPT ![t] = readl_relaxed(c.dev, V2_REG_CR)]
             /\ Goto(t, "write")
             /\ UNCHANGED regs
       \/ /\ InCall(t, "v2_gpt_enable", "write")
          /\ regs' = writel_relaxed(enable_cr(val[t]), dev[t], V2_REG_CR)
          /\ Finish(t, "void")
          /\ UNCHANGED val
    /\ UNCHANGED <<icap_lock, restvars, probevars>>

v2_gpt_disable(t, U) ==
    /\ \/ \E c \in Calls(t, "v2_gpt_disable", U) :
             /\ Enter(t, "v2_gpt_disable", c)
             /\ val' = [val EXCEPT ![t] = readl_relaxed(c.dev, V2_REG_CR)]
             /\ Goto(t, "write")
             /\ UNCHANGED regs
       \/ /\ InCall(t, "v2_gpt_disable", "write")
          /\ regs' = writel_relaxed(disable_cr(val[t]), dev[t], V2_REG_CR)
          /\ Finish(t, "void")
          /\ UNCHANGED val
    /\ UNCHANGED <<icap_lock, restvars, probevars>>

v2_gpt_irq_acknowledge(t, U) ==
    /\ \E c \in Calls(t, "v2_gpt_irq_acknowledge", U) :
          /\ Enter(t, "v2_gpt_irq_acknowledge", c)
          /\ regs' = writel_relaxed(V2_SR_ROV, c.dev, V2_REG_SR)
    /\ Finish(t, "void")
    /\ UNCHANGED <<icap_lock, val, restvars, probevars>>

v2_gpt_is_rollover(t, U) ==
    /\ \E c \in Calls(t, "v2_gpt_is_rollover", U) :
          /\ Enter(t, "v2_gpt_is_rollover", c)
          /\ val' = [val EXCEPT ![t] = readl_relaxed(c.dev, V2_REG_SR)]
    /\ Finish(t, IF BitAnd(val'[t], V2_SR_ROV) # {} THEN "true" ELSE "false")
    /\ UNCHANGED <<regs, icap_lock, restvars, probevars>>

\* ------------------------------------------- output-compare operations
v2_gpt_oc_setup(t, U) ==
    /\ \E c \in Calls(t, "v2_gpt_oc_setup", U) :
          /\ Enter(t, "v2_gpt_oc_setup", c)
          /\ IF oc_setup_invalid(c.chan)
             THEN UNCHANGED regs
             ELSE regs' = writel_relaxed(c.arg, c.dev, oc_setup_reg(c.chan))
    /\ Finish(t, "void")
    /\ UNCHANGED <<icap_lock, val, restvars, probevars>>

v2_gpt_oc_irq_enable(t, U) ==
    /\ \/ \E c \in Calls(t, "v2_gpt_oc_irq_enable", U) :
             /\ Enter(t, "v2_gpt_oc_irq_enable", c)
             /\ IF oc_irq_enable_invalid(c.chan) THEN Finish(t, "void") ELSE Goto(t, "lock")
             /\ UNCHANGED <<regs, icap_lock, val>>
       \/ /\ InCall(t, "v2_gpt_oc_irq_enable", "lock")
          /\ spin_lock_irqsave(t)
          /\ Goto(t, "read")
          /\ UNCHANGED <<regs, val>>
       \/ /\ InCall(t, "v2_gpt_oc_irq_enable", "read")
          /\ val' = [val EXCEPT ![t] = readl_relaxed(dev[t], V2_REG_IR)]
          /\ Goto(t, "write")
          /\ UNCHANGED <<regs, icap_lock>>
       \/ /\ InCall(t, "v2_gpt_oc_irq_enable", "write")
          /\ regs' = writel_relaxed(BitOr(val[t], oc_irq_enable_mask(chan[t])), dev[t], V2_REG_IR)
          /\ Goto(t, "unlock")
          /\ UNCHANGED <<icap_lock, val>>
       \/ /\ InCall(t, "v2_gpt_oc_irq_enable", "unlock")
          /\ spin_unlock_irqrestore(t)
          /\ Finish(t, "void")
          /\ UNCHANGED <<regs, val>>
    /\ UNCHANGED <<restvars, probevars>>

v2_gpt_oc_irq_disable(t, U) ==
    /\ \/ \E c \in Calls(t, "v2_gpt_oc_irq_disable", U) :
             /\ Enter(t, "v2_gpt_oc_irq_disable", c)
             /\ IF oc_irq_disable_invalid(c.chan) THEN Finish(t, "void") ELSE Goto(t, "lock")
             /\ UNCHANGED <<regs, icap_lock, val>>
       \/ /\ InCall(t, "v2_gpt_oc_irq_disable", "lock")
          /\ spin_lock_irqsave(t)
          /\ Goto(t, "read")
          /\ UNCHANGED <<regs, val>>
       \/ /\ InCall(t, "v2_gpt_oc_irq_disable", "read")
          /\ val' = [val EXCEPT ![t] = readl_relaxed(dev[t], V2_REG_IR)]
          /\ Goto(t, "write")
          /\ UNCHANGED <<regs, icap_lock>>
       \/ /\ InCall(t, "v2_gpt_oc_irq_disable", "write")
          /\ regs' = writel_relaxed(BitAnd(val[t], oc_irq_disable_mask(chan[t])), dev[t], V2_REG_IR)
          /\ Goto(t, "unlock")
          /\ UNCHANGED <<icap_lock, val>>
       \/ /\ InCall(t, "v2_gpt_oc_irq_disable", "unlock")
          /\ spin_unlock_irqrestore(t)
          /\ Finish(t, "void")
          /\ UNCHANGED <<regs, val>>
    /\ UNCHANGED <<restvars, probevars>>

v2_gpt_oc_irq_acknowledge(t, U) ==
    /\ \E c \in Calls(t, "v2_gpt_oc_irq_acknowledge", U) :
          /\ Enter(t, "v2_gpt_oc_irq_acknowledge", c)
          /\ IF oc_irq_acknowledge_invalid(c.chan)
             THEN UNCHANGED regs
             ELSE regs' = writel_relaxed(oc_irq_acknowledge_mask(c.chan), c.dev, V2_REG_SR)
    /\ Finish(t, "void")
    /\ UNCHANGED <<icap_lock, val, restvars, probevars>>

v2_gpt_is_oc_irq(t, U) ==
    /\ \E c \in Calls(t, "v2_gpt_is_oc_irq", U) :
          /\ Enter(t, "v2_gpt_is_oc_irq", c)
          /\ IF is_oc_irq_invalid(c.chan)
             THEN /\ Finish(t, "false")
                  /\ UNCHANGED val
             ELSE /\ val' = [val EXCEPT ![t] = readl_relaxed(c.dev, V2_REG_SR)]
                  /\ Finish(t, IF BitAnd(val'[t], is_oc_irq_mask(c.chan)) # {}
                               THEN "true" ELSE "false")
    /\ UNCHANGED <<regs, icap_lock, restvars, probevars>>

\* -------------------------------------------- input-capture operations
v2_gpt_ic_setup(t, U) ==
    /\ \/ \E c \in Calls(t, "v2_gpt_ic_setup", U) :
             /\ Enter(t, "v2_gpt_ic_setup", c)
             /\ IF ic_setup_invalid(c.chan, c.arg)
                THEN /\ Finish(t, "void")
                     /\ UNCHANGED val
                ELSE /\ val' = [val EXCEPT ![t] = readl_relaxed(c.dev, V2_REG_CR)]
                     /\ Goto(t, "write")
             /\ UNCHANGED regs
       \/ /\ InCall(t, "v2_gpt_ic_setup", "write")
          /\ regs' = writel_relaxed(ic_setup_cr(val[t], chan[t], arg[t]),
                                    dev[t], V2_REG_CR)
          /\ Finish(t, "void")
          /\ UNCHANGED val
    /\ UNCHANGED <<icap_lock, restvars, probevars>>

v2_gpt_ic_irq_enable(t, U) ==
    /\ \/ \E c \in Calls(t, "v2_gpt_ic_irq_enable", U) :
             /\ Enter(t, "v2_gpt_ic_irq_enable", c)
             /\ IF ic_irq_enable_invalid(c.chan) THEN Finish(t, "void") ELSE Goto(t, "lock")
             /\ UNCHANGED <<regs, icap_lock, val>>
       \/ /\ InCall(t, "v2_gpt_ic_irq_enable", "lock")
          /\ spin_lock_irqsave(t)
          /\ Goto(t, "read")
          /\ UNCHANGED <<regs, val>>
       \/ /\ InCall(t, "v2_gpt_ic_irq_enable", "read")
          /\ val' = [val EXCEPT ![t] = readl_relaxed(dev[t], V2_REG_IR)]
          /\ Goto(t, "write")
          /\ UNCHANGED <<regs, icap_lock>>
       \/ /\ InCall(t, "v2_gpt_ic_irq_enable", "write")
          /\ regs' = writel_relaxed(BitOr(val[t], ic_irq_enable_mask(chan[t])), dev[t], V2_REG_IR)
          /\ Goto(t, "unlock")
          /\ UNCHANGED <<icap_lock, val>>
       \/ /\ InCall(t, "v2_gpt_ic_irq_enable", "unlock")
          /\ spin_unlock_irqrestore(t)
          /\ Finish(t, "void")
          /\ UNCHANGED <<regs, val>>
    /\ UNCHANGED <<restvars, probevars>>

v2_gpt_ic_irq_disable(t, U) ==
    /\ \/ \E c \in Calls(t, "v2_gpt_ic_irq_disable", U) :
             /\ Enter(t, "v2_gpt_ic_irq_disable", c)
             /\ IF ic_irq_disable_invalid(c.chan) THEN Finish(t, "void") ELSE Goto(t, "lock")
             /\ UNCHANGED <<regs, icap_lock, val>>
       \/ /\ InCall(t, "v2_gpt_ic_irq_disable", "lock")
          /\ spin_lock_irqsave(t)
          /\ Goto(t, "read")
          /\ UNCHANGED <<regs, val>>
       \/ /\ InCall(t, "v2_gpt_ic_irq_disable", "read")
          /\ val' = [val EXCEPT ![t] = readl_relaxed(dev[t], V2_REG_IR)]
          /\ Goto(t, "write")
          /\ UNCHANGED <<regs, icap_lock>>
       \/ /\ InCall(t, "v2_gpt_ic_irq_disable", "write")
          /\ regs' = writel_relaxed(BitAnd(val[t], ic_irq_disable_mask(chan[t])), dev[t], V2_REG_IR)
          /\ Goto(t, "unlock")
          /\ UNCHANGED <<icap_lock, val>>
       \/ /\ InCall(t, "v2_gpt_ic_irq_disable", "unlock")
          /\ spin_unlock_irqrestore(t)
          /\ Finish(t, "void")
          /\ UNCHANGED <<regs, val>>
    /\ UNCHANGED <<restvars, probevars>>

v2_gpt_ic_irq_acknowledge(t, U) ==
    /\ \E c \in Calls(t, "v2_gpt_ic_irq_acknowledge", U) :
          /\ Enter(t, "v2_gpt_ic_irq_acknowledge", c)
          /\ IF ic_irq_acknowledge_invalid(c.chan)
             THEN UNCHANGED regs
             ELSE regs' = writel_relaxed(ic_irq_acknowledge_mask(c.chan), c.dev, V2_REG_SR)
    /\ Finish(t, "void")
    /\ UNCHANGED <<icap_lock, val, restvars, probevars>>

v2_gpt_is_ic_irq(t, U) ==
    /\ \E c \in Calls(t, "v2_gpt_is_ic_irq", U) :
          /\ Enter(t, "v2_gpt_is_ic_irq", c)
          /\ IF is_ic_irq_invalid(c.chan)
             THEN /\ Finish(t, "false")
                  /\ UNCHANGED val
             ELSE /\ val' = [val EXCEPT ![t] = readl_relaxed(c.dev, V2_REG_SR)]
                  /\ Finish(t, IF BitAnd(val'[t], is_ic_irq_mask(c.chan)) # {}
                               THEN "true" ELSE "false")
    /\ UNCHANGED <<regs, icap_lock, restvars, probevars>>

\* ---------------------------------------------------------------- probe
\* mutant: the latch is never consulted
gpt_probe_latched_never == FALSE
\* if (initialized)
gpt_probe_latched == initialized # 0

ProbeReturn(t, r) ==
    /\ pret' = [pret EXCEPT ![t] = r]
    /\ pc' = [pc EXCEPT ![t] = "idle"]
    /\ imxtm' = [imxtm EXCEPT ![t] = NoImxtm]
    /\ succeeded' = (succeeded \/ r = 0)

Acquire(t, rs) == held' = [held EXCEPT ![t] = @ \cup rs]
Release(t, rs) == held' = [held EXCEPT ![t] = @ \ rs]

\* the driver core calls gpt_probe for a matching device
ProbeCall(t) ==
    /\ pc[t] = "idle"
    /\ \E d \in Devs : dev' = [dev EXCEPT ![t] = d]
    /\ fn' = [fn EXCEPT ![t] = "gpt_probe"]
    /\ chan' = [chan EXCEPT ![t] = 0]
    /\ arg' = [arg EXCEPT ![t] = {}]
    /\ pc' = [pc EXCEPT ![t] = "probe"]
    /\ held' = [held EXCEPT ![t] = {}]
    /\ pret' = [pret EXCEPT ![t] = 0]
    /\ UNCHANGED <<regs, icap_lock, val, ret, seq, restvars, ncalls, initialized,
                   imxtm, timers, succeeded>>

gpt_probe(t) ==
    /\ \/ /\ pc[t] = "probe" /\ gpt_probe_latched
          /\ ProbeReturn(t, 0)
          /\ UNCHANGED <<initialized, held, timers>>
       \/ /\ pc[t] = "probe" /\ ~gpt_probe_latched
          /\ pc' = [pc EXCEPT ![t] = "kzalloc"]
          /\ UNCHANGED <<initialized, imxtm, pret, held, timers, succeeded>>
       \/ /\ pc[t] = "kzalloc"
          /\ \E ok \in BOOLEAN :
                IF ok
                THEN /\ imxtm' = [imxtm EXCEPT ![t].np = dev[t]]
                     /\ Acquire(t, {"imxtm"})
                     /\ pc' = [pc EXCEPT ![t] = "of_iomap"]
                     /\ UNCHANGED <<pret, succeeded>>
                ELSE /\ ProbeReturn(t, -ENOMEM)
                     /\ UNCHANGED held
          /\ UNCHANGED <<initialized, timers>>
       \/ /\ pc[t] = "of_iomap"
          /\ \E ok \in BOOLEAN :
                IF ok
                THEN /\ imxtm' = [imxtm EXCEPT ![t].base = imxtm[t].np]
                     /\ Acquire(t, {"iomap"})
                     /\ pc' = [pc EXCEPT ![t] = "irq"]
                     /\ UNCHANGED <<pret, succeeded>>
                ELSE /\ Release(t, {"imxtm"})
                     /\ ProbeReturn(t, -ENXIO)
          /\ UNCHANGED <<initialized, timers>>
       \/ /\ pc[t] = "irq"
          /\ \E irq \in IrqInputs :
                IF irq <= 0
                THEN /\ Release(t, {"imxtm"})
                     /\ ProbeReturn(t, -EINVAL)
                ELSE /\ imxtm' = [imxtm EXCEPT ![t].irq = irq]
                     /\ Acquire(t, {"irq"})
                     /\ pc' = [pc EXCEPT ![t] = "clk_get"]
                     /\ UNCHANGED <<pret, succeeded>>
          /\ UNCHANGED <<initialized, timers>>
       \/ /\ pc[t] = "clk_get"
          /\ \E ipg \in IpgInputs, osc_per \in ClkInputs, per \in ClkInputs :
                LET clk_per == IF IS_ERR(osc_per) THEN per ELSE osc_per
                IN  /\ Acquire(t, (IF IS_ERR(ipg) THEN {} ELSE {"clk_ipg"})
                                  \cup (IF IS_ERR(clk_per) THEN {} ELSE {"clk_per"}))
                    /\ IF IS_ERR(clk_per) \/ IS_ERR(ipg)
                       THEN ProbeReturn(t, PTR_ERR(clk_per))
                       ELSE /\ imxtm' = [imxtm EXCEPT ![t].clk_ipg = ipg,
                                                      ![t].clk_per = clk_per]
                            /\ pc' = [pc EXCEPT ![t] = "clk_enable"]
                            /\ UNCHANGED <<pret, succeeded>>
          /\ UNCHANGED <<initialized, timers>>
       \/ /\ pc[t] = "clk_enable"
          /\ \E ipg_ok \in BOOLEAN, per_ok \in BOOLEAN :
                imxtm' = [imxtm EXCEPT ![t].ipg_on = ipg_ok, ![t].per_on = per_ok]
          /\ pc' = [pc EXCEPT ![t] = "gpt_setup"]
          /\ UNCHANGED <<initialized, pret, held, timers, succeeded>>
       \/ /\ pc[t] = "probe_latch"
          /\ initialized' = 1
          /\ timers' = timers \cup {imxtm[t].base}
          /\ ProbeReturn(t, 0)
          /\ UNCHANGED held
    /\ seq' = [seq EXCEPT ![t] = IF pc'[t] = "gpt_setup" THEN 1 ELSE 0]
    /\ UNCHANGED <<regs, icap_lock, restvars, val, ret, callvars>>

\* the sequencer has made its last call (each call is the entry step of the
\* function the dispatch table names, see Calls): return 0 to gpt_probe
gpt_setup(t) ==
    /\ pc[t] = "gpt_setup"
    /\ seq[t] > Len(gpt_setup_calls)
    /\ pc' = [pc EXCEPT ![t] = "probe_latch"]
    /\ seq' = [seq EXCEPT ![t] = 0]
    /\ UNCHANGED <<regs, icap_lock, restvars, val, ret, callvars, probevars>>

\* ------------------------------------------------------------ next state
\* the driver core binding a device
ProbeStep(t) ==
    \/ ProbeCall(t)
    \/ gpt_probe(t)
    \/ gpt_setup(t)

\* a step of one of the fifteen operations, U being the calls users make
ApiStep(t, U) ==
    \/ v2_gpt_setup_tctl(t, U)
    \/ v2_gpt_enable(t, U)
    \/ v2_gpt_disable(t, U)
    \/ v2_gpt_irq_acknowledge(t, U)
    \/ v2_gpt_is_rollover(t, U)
    \/ v2_gpt_oc_setup(t, U)
    \/ v2_gpt_oc_irq_enable(t, U)
    \/ v2_gpt_oc_irq_disable(t, U)
    \/ v2_gpt_oc_irq_acknowledge(t, U)
    \/ v2_gpt_is_oc_irq(t, U)
    \/ v2_gpt_ic_setup(t, U)
    \/ v2_gpt_ic_irq_enable(t, U)
    \/ v2_gpt_ic_irq_disable(t, U)
    \/ v2_gpt_ic_irq_acknowledge(t, U)
    \/ v2_gpt_is_ic_irq(t, U)

\* one execution context: every call runs to completion before the next
Next == ProbeStep(1) \/ ApiStep(1, ApiCalls)
Spec == Init /\ [][Next]_vars

\* the read-modify-write operations, called with valid arguments
ConcCalls ==
    {c \in ApiCalls :
        \/ c.fn \in {"v2_gpt_enable", "v2_gpt_disable"}
        \/ c.fn \in {"v2_gpt_oc_irq_enable", "v2_gpt_oc_irq_disable"}
           /\ c.chan \in 1..V2_OM_NUM
        \/ c.fn \in {"v2_gpt_ic_irq_enable", "v2_gpt_ic_irq_disable"}
           /\ c.chan \in 1..V2_IM_NUM
        \/ c.fn = "v2_gpt_ic_setup" /\ c.chan \in 1..V2_IM_NUM
           /\ c.arg \in {V2_IM_MODE_RISING_EDGE, V2_IM_MODE_FALLING_EDGE,
                         V2_IM_MODE_BOTH}}

\* the operations the sequencer or a ConcCalls user enters
ConcStep(t, U) ==
    \/ v2_gpt_setup_tctl(t, U)
    \/ v2_gpt_oc_setup(t, U)
    \/ v2_gpt_enable(t, U)
    \/ v2_gpt_disable(t, U)
    \/ v2_gpt_ic_setup(t, U)
    \/ v2_gpt_oc_irq_enable(t, U)
    \/ v2_gpt_oc_irq_disable(t, U)
    \/ v2_gpt_ic_irq_enable(t, U)
    \/ v2_gpt_ic_irq_disable(t, U)

\* context 1 binds the device; then the read-modify-write calls of two
\* execution contexts interleave step by step
NextConc == ProbeStep(1) \/ \E t \in Ctx : ConcStep(t, ConcCalls)
SpecConc == Init /\ [][NextConc]_vars

\* ================================================================ claims
\* what the claims call the registers of device d
CR(d) == regs[d][V2_REG_CR]
IR(d) == regs[d][V2_REG_IR]
\* the interrupt-enable bit the claims assign to a channel
ClaimIrBit(f, c) ==
    IF f \in {"v2_gpt_oc_irq_enable", "v2_gpt_oc_irq_disable"} THEN c - 1 ELSE c + 2
\* the compare register the claims assign to a channel
ClaimOcr(c) == CASE c = 1 -> V2_REG_OCR1 [] c = 2 -> V2_REG_OCR2 [] c = 3 -> V2_REG_OCR3
OcOps == {"v2_gpt_oc_setup"} \cup OcChanFns
IcOps == {"v2_gpt_ic_setup"} \cup IcChanFns
\* this step is context t entering a user call (and returning, if the
\* function is a single step)
Calling(t) ==
    /\ pc[t] = "idle"
    /\ ncalls' = ncalls + 1
    /\ \A u \in Ctx \ {t} : pc'[u] = pc[u] /\ fn'[u] = fn[u] /\ ret'[u] = ret[u]
\* context t has returned from a valid interrupt-enable call
EnableDone(t) ==
    /\ pc[t] = "idle"
    /\ ret[t] = "void"
    /\ \/ fn[t] = "v2_gpt_oc_irq_enable" /\ chan[t] \in 1..3
       \/ fn[t] = "v2_gpt_ic_irq_enable" /\ chan[t] \in 1..2
\* OC channel 1 compare value, IC channel 1 mode and IC channel 1 interrupt
\* enable are programmed as the sequencer programs them
Programmed(d) ==
    /\ regs[d][V2_REG_OCR1] = U32_MAX
    /\ {16, 17} \subseteq CR(d)
    /\ 3 \in IR(d)

\* C1: when exactly two user calls have been made, one by each context, both
\* valid interrupt-enable calls on the same device for different bits, and
\* both have returned, then both bits are set in the interrupt-enable
\* register, whatever the interleaving of their steps was.
C1_NoLostEnable ==
    \A t1 \in Ctx, t2 \in Ctx :
        ( /\ t1 # t2
          /\ ncalls = 2
          /\ EnableDone(t1) /\ EnableDone(t2)
          /\ dev[t1] = dev[t2]
          /\ ClaimIrBit(fn[t1], chan[t1]) # ClaimIrBit(fn[t2], chan[t2]) )
        => {ClaimIrBit(fn[t1], chan[t1]), ClaimIrBit(fn[t2], chan[t2])}
              \subseteq IR(dev[t1])
\* both calls returned, on a block whose enable register held neither bit
\* when the calls were made (the other device still shows the boot value)
C1_Witness ==
    /\ ncalls = 2
    /\ EnableDone(1) /\ EnableDone(2)
    /\ fn[1] = "v2_gpt_oc_irq_enable" /\ chan[1] = 1
    /\ fn[2] = "v2_gpt_ic_irq_enable" /\ chan[2] = 2
    /\ dev[1] = dev[2]
    /\ \E d \in Devs \ {dev[1]} : IR(d) = {}
    /\ {0, 4} \subseteq IR(dev[1])

\* C2: once some gpt_probe call has returned 0, the step a later gpt_probe
\* call takes returns 0 at once and changes no register, acquires nothing
\* (no allocation, mapping, interrupt or clock) and leaves the latch alone.
C2_LaterProbeNoop ==
    [][ \A t \in Ctx :
          (succeeded /\ pc[t] = "probe" /\ pc'[t] # "probe")
          => /\ pc'[t] = "idle"
             /\ pret'[t] = 0
             /\ regs' = regs
             /\ held'[t] = {}
             /\ timers' = timers
             /\ initialized' = initialized ]_vars
\* a later probe has returned after the bound timer was used
C2_Witness ==
    /\ succeeded
    /\ ncalls > 0
    /\ pc[1] = "idle" /\ fn[1] = "gpt_probe" /\ pret[1] = 0 /\ held[1] = {}

\* C3: when gpt_setup has returned to gpt_probe, and after that probe has
\* returned as long as no user call has been made, the bound device has the
\* run-enable bit set, OCR1 = 0xFFFFFFFF, IC channel 1 mode = Both and the
\* IC channel 1 interrupt-enable bit set.
C3_BoundState ==
    /\ \A t \in Ctx :
          pc[t] = "probe_latch"
          => 0 \in CR(imxtm[t].base) /\ Programmed(imxtm[t].base)
    /\ (initialized = 1 /\ ncalls = 0)
       => \A d \in timers : 0 \in CR(d) /\ Programmed(d)
\* a device that firmware had left with another compare value has been bound
C3_Witness ==
    /\ initialized = 1 /\ ncalls = 0 /\ pc[1] = "idle" /\ pret[1] = 0
    /\ \E d \in timers : 0 \in CR(d) /\ Programmed(d)
    /\ \E d \in Devs \ timers : regs[d][V2_REG_OCR1] = U32(1000)

\* C4: in every state of gpt_setup after its first step, the run-enable bit
\* is set only if OCR1, the IC channel 1 mode and the IC channel 1
\* interrupt-enable bit are programmed: enable comes last.
C4_EnableLast ==
    \A t \in Ctx :
        (seq[t] >= 1 /\ ~(pc[t] = "gpt_setup" /\ seq[t] = 1))
        => (0 \in CR(imxtm[t].base) => Programmed(imxtm[t].base))
\* the sequencer is between its calls on a device that was running at boot,
\* with the timer stopped and channel 1 not yet programmed
C4_Witness ==
    /\ pc[1] = "gpt_setup" /\ seq[1] = 3
    /\ 0 \notin CR(imxtm[1].base)
    /\ ~Programmed(imxtm[1].base)
    /\ \E d \in Devs \ {imxtm[1].base} : 0 \in CR(d)

\* C5: a user call of a channel operation with channel 0 or a channel above
\* the kind's count (3 for output compare, 2 for input capture) returns in
\* that step, with every register unchanged, nothing read into the
\* function's local and the lock untouched.
C5_InvalidChannelNoAccess ==
    [][ \A t \in Ctx :
          ( /\ Calling(t)
            /\ \/ fn'[t] \in OcOps /\ (chan'[t] = 0 \/ chan'[t] > 3)
               \/ fn'[t] \in IcOps /\ (chan'[t] = 0 \/ chan'[t] > 2) )
          => /\ regs' = regs
             /\ icap_lock' = icap_lock
             /\ val'[t] = val[t]
             /\ pc'[t] = "idle" ]_vars
\* an interrupt-enable call with channel 4 has returned
C5_Witness ==
    /\ pc[1] = "idle" /\ fn[1] = "v2_gpt_oc_irq_enable" /\ chan[1] = 4
    /\ ret[1] = "void"

\* C6 (as claimed): a channel operation called with an out-of-range channel
\* returns InvalidChannel, and ic_setup called with a valid channel and an
\* out-of-range mode returns InvalidMode.
C6_RejectionReported ==
    \A t \in Ctx :
        (pc[t] = "idle" /\ ret[t] # "none")
        => /\ ( \/ fn[t] \in OcOps /\ (chan[t] = 0 \/ chan[t] > 3)
                \/ fn[t] \in IcOps /\ (chan[t] = 0 \/ chan[t] > 2) )
              => ret[t] = "InvalidChannel"
           /\ ( /\ fn[t] = "v2_gpt_ic_setup" /\ chan[t] \in 1..2
                /\ GtU32(arg[t], U32(3)) )
              => ret[t] = "InvalidMode"

\* C7 (as claimed): an acknowledge followed, as the context's next call on
\* the same device, by the status query of the same bit makes the query
\* return false (status bits being write-one-to-clear, no event between).
C7_AckThenStatusFalse ==
    [][ \A t \in Ctx :
          ( /\ Calling(t)
            /\ ret[t] = "void"
            /\ dev'[t] = dev[t]
            /\ \/ /\ fn[t] = "v2_gpt_oc_irq_acknowledge" /\ chan[t] \in 1..3
                  /\ fn'[t] = "v2_gpt_is_oc_irq" /\ chan'[t] = chan[t]
               \/ /\ fn[t] = "v2_gpt_ic_irq_acknowledge" /\ chan[t] \in 1..2
                  /\ fn'[t] = "v2_gpt_is_ic_irq" /\ chan'[t] = chan[t]
               \/ /\ fn[t] = "v2_gpt_irq_acknowledge"
                  /\ fn'[t] = "v2_gpt_is_rollover" )
          => ret'[t] = "false" ]_vars

\* C8: a user call oc_setup(i, v) with i in 1..3 leaves v in channel i's
\* compare register and the other two compare registers as they were.
C8_OcSetupRoundTrip ==
    [][ \A t \in Ctx :
          (Calling(t) /\ fn'[t] = "v2_gpt_oc_setup" /\ chan'[t] \in 1..3)
          => /\ regs'[dev'[t]][ClaimOcr(chan'[t])] = arg'[t]
             /\ \A c \in (1..3) \ {chan'[t]} :
                   regs'[dev'[t]][ClaimOcr(c)] = regs[dev'[t]][ClaimOcr(c)] ]_vars
\* oc_setup(2, 0x80000001) has returned and OCR2 reads back that value,
\* OCR1 still holding what the sequencer wrote
C8_Witness ==
    /\ pc[1] = "idle" /\ fn[1] = "v2_gpt_oc_setup" /\ chan[1] = 2
    /\ arg[1] = {0, 31}
    /\ regs[dev[1]][V2_REG_OCR2] = {0, 31}
    /\ regs[dev[1]][V2_REG_OCR1] = U32_MAX

\* C9 (as claimed): the write of enable sets, and the write of disable
\* clears, bit 0 of the control register and changes no other bit of it.
C9_EnableDisableOnlyBit0 ==
    [][ \A t \in Ctx :
          ( /\ pc[t] = "write" /\ pc'[t] # "write"
            /\ fn[t] \in {"v2_gpt_enable", "v2_gpt_disable"} )
          => /\ CR(dev[t])' \ {0} = CR(dev[t]) \ {0}
             /\ (0 \in CR(dev[t])') <=> (fn[t] = "v2_gpt_enable") ]_vars

\* C10 (as claimed): the write of oc_irq_disable(c) or ic_irq_disable(c)
\* clears the enable bit of channel c and leaves every other bit of the
\* interrupt-enable register that was set still set.
C10_DisableOnlyOwnBit ==
    [][ \A t \in Ctx :
          ( /\ pc[t] = "write" /\ pc'[t] # "write"
            /\ fn[t] \in {"v2_gpt_oc_irq_disable", "v2_gpt_ic_irq_disable"} )
          => /\ ClaimIrBit(fn[t], chan[t]) \notin IR(dev[t])'
             /\ IR(dev[t]) \ {ClaimIrBit(fn[t], chan[t])} \subseteq IR(dev[t])' ]_vars

\* context t takes a step of the function it is in, at position l
Stepping(t, l) == pc[t] = l /\ (pc'[t] # l \/ ret'[t] # ret[t])

\* C11: the write of oc_irq_enable(c), c in 1..3, sets bit c-1 and the write
\* of ic_irq_enable(c), c in 1..2, sets bit c+2 of the interrupt-enable
\* register, every other bit of it and every other register staying as they
\* were; the function's other steps (entry, lock, read, unlock) change no
\* register.
C11_EnableOnlyOwnBit ==
    [][ \A t \in Ctx :
          /\ ( /\ Stepping(t, "write")
               /\ fn[t] \in {"v2_gpt_oc_irq_enable", "v2_gpt_ic_irq_enable"} )
             => regs' = [regs EXCEPT ![dev[t]][V2_REG_IR] =
                            @ \cup {ClaimIrBit(fn[t], chan[t])}]
          /\ ( /\ fn[t] \in {"v2_gpt_oc_irq_enable", "v2_gpt_ic_irq_enable"}
               /\ \E l \in {"lock", "read", "unlock"} : Stepping(t, l) )
             => regs' = regs
          /\ ( /\ Calling(t)
               /\ fn'[t] \in {"v2_gpt_oc_irq_enable", "v2_gpt_ic_irq_enable"} )
             => regs' = regs ]_vars
\* oc_irq_enable(2) has returned on a device whose enable register held only
\* the capture-1 bit set at bind
C11_Witness ==
    /\ pc[1] = "idle" /\ fn[1] = "v2_gpt_oc_irq_enable" /\ chan[1] = 2
    /\ ret[1] = "void"
    /\ IR(dev[1]) = {1, 3}

\* context t has returned from setup and entered nothing since
SetupDone(t) == fn[t] = "v2_gpt_setup_tctl" /\ ret[t] = "void"

\* C12: when setup has returned, the prescaler register holds the
\* divide-by-8 selection (7 in bits 15:12) if the peripheral clock rate is
\* 3000000 and the divide-by-3 selection (2 in bits 15:12) for any other
\* rate, and nothing else.
C12_PrescalerByRate ==
    \A t \in Ctx :
        SetupDone(t)
        => regs[dev[t]][V2_REG_PR] =
              (IF clk_rate = 3000000 THEN {12, 13, 14} ELSE {13})
\* the sequencer's setup call has returned at rate 3000000 on a device whose
\* prescaler firmware had programmed differently
C12_Witness ==
    /\ SetupDone(1) /\ pc[1] = "gpt_setup" /\ seq[1] = 2
    /\ clk_rate = 3000000
    /\ regs[dev[1]][V2_REG_PR] = {12, 13, 14}
    /\ \E d \in Devs \ {dev[1]} : regs[d][V2_REG_PR] = U32(23)

\* C13 (as claimed): when setup has returned, the frequency of the clock
\* source selected in the control register divided by the divisor selected in
\* the prescaler register is 3000000, whatever the peripheral clock rate.
C13_EffectiveRate3MHz ==
    \A t \in Ctx :
        SetupDone(t)
        => ClkSrcHz(CR(dev[t])) = 3000000 * Pre24mDiv(regs[dev[t]][V2_REG_PR])

\* C14: a user call of ic_setup with a mode above 3, whatever the channel,
\* returns in that step with every register unchanged.
C14_InvalidModeNoWrite ==
    [][ \A t \in Ctx :
          ( /\ Calling(t)
            /\ fn'[t] = "v2_gpt_ic_setup"
            /\ GtU32(arg'[t], U32(3)) )
          => regs' = regs /\ pc'[t] = "idle" ]_vars
\* ic_setup(1, 4) has returned and the control register still holds what
\* the bind left in it at rate 3000000
C14_Witness ==
    /\ pc[1] = "idle" /\ fn[1] = "v2_gpt_ic_setup" /\ chan[1] = 1
    /\ arg[1] = U32(4) /\ ret[1] = "void"
    /\ CR(dev[1]) = {0, 3, 6, 8, 10, 16, 17}

\* context t takes a failing exit of gpt_probe after its allocation succeeded
ProbeFails(t) == pc[t] \in {"of_iomap", "irq", "clk_get"} /\ pc'[t] = "idle"

\* C15 (as claimed): when gpt_probe returns because the register block could
\* not be mapped, no interrupt was resolved or a clock could not be
\* obtained, the call holds nothing it acquired: the device structure has
\* been freed and the register mapping, if made, unmapped.
C15_FailureReleasesAll ==
    [][ \A t \in Ctx :
          ProbeFails(t) => held'[t] \cap {"imxtm", "iomap"} = {} ]_vars

\* C16 (as claimed): every step of the sequencer, and the setting of the
\* latch, happens with the register block mapped, both clocks obtained and
\* both clock prepare/enable calls having succeeded.
C16_SequencerNeedsClocksOn ==
    [][ \A t \in Ctx :
          ( \/ seq[t] >= 1 /\ (pc'[t] # pc[t] \/ seq'[t] # seq[t])
            \/ initialized' # initialized /\ pc[t] = "probe_latch" )
          => /\ imxtm[t].base # "NULL"
             /\ ~IS_ERR(imxtm[t].clk_ipg) /\ ~IS_ERR(imxtm[t].clk_per)
             /\ imxtm[t].ipg_on /\ imxtm[t].per_on ]_vars

\* C17 (as claimed): when mapping the register block, resolving the
\* interrupt or looking up a clock fails, gpt_probe returns a negative error
\* code (a value in -4095..-1), having run no sequencer step and leaving the
\* latch clear.
C17_FailureReturnsErrno ==
    [][ \A t \in Ctx :
          ProbeFails(t)
          => /\ pret'[t] \in (-4095)..(-1)
             /\ regs' = regs
             /\ initialized' = initialized ]_vars

\* ------------------------------------------------- overlapping probes
\* the operations gpt_setup calls, entered only from the sequencer
SeqStep(t) ==
    \/ v2_gpt_setup_tctl(t, {})
    \/ v2_gpt_oc_setup(t, {})
    \/ v2_gpt_ic_setup(t, {})
    \/ v2_gpt_ic_irq_enable(t, {})
    \/ v2_gpt_enable(t, {})

\* the driver core probes matching devices from two contexts whose steps
\* interleave
NextProbe == \E t \in Ctx : ProbeStep(t) \/ SeqStep(t)
SpecProbe == Init /\ [][NextProbe]_vars

\* context t is running the sequencer or has run it in its current probe call
RanSetup(t) == seq[t] >= 1 \/ pc[t] = "probe_latch"

\* C18 (as claimed): however the steps of overlapping gpt_probe calls
\* interleave, the sequencer runs at most once: no two calls are in or past
\* it together, and none is once the latch is set.
C18_SequencerAtMostOnce ==
    /\ Cardinality({t \in Ctx : RanSetup(t)}) <= 1
    /\ initialized # 0 => \A t \in Ctx : ~RanSetup(t)

\* the implementation struct imx_gpt_data's member of each name is for
OwnImpl ==
    [s \in Slots |->
        CASE s = "gpt_setup_tctl" -> "v2_gpt_setup_tctl"
          [] s = "gpt_enable" -> "v2_gpt_enable"
          [] s = "gpt_disable" -> "v2_gpt_disable"
          [] s = "gpt_irq_acknowledge" -> "v2_gpt_irq_acknowledge"
          [] s = "gpt_is_rollover" -> "v2_gpt_is_rollover"
          [] s = "gpt_oc_setup" -> "v2_gpt_oc_setup"
          [] s = "gpt_oc_irq_enable" -> "v2_gpt_oc_irq_enable"
          [] s = "gpt_oc_irq_disable" -> "v2_gpt_oc_irq_disable"
          [] s = "gpt_oc_irq_acknowledge" -> "v2_gpt_oc_irq_acknowledge"
          [] s = "gpt_is_oc_irq" -> "v2_gpt_is_oc_irq"
          [] s = "gpt_ic_setup" -> "v2_gpt_ic_setup"
          [] s = "gpt_ic_irq_enable" -> "v2_gpt_ic_irq_enable"
          [] s = "gpt_ic_irq_disable" -> "v2_gpt_ic_irq_disable"
          [] s = "gpt_ic_irq_acknowledge" -> "v2_gpt_ic_irq_acknowledge"
          [] s = "gpt_is_ic_irq" -> "v2_gpt_is_ic_irq"]

\* C19 (as claimed): for a bound timer, the dispatch table its operations
\* are invoked through has 15 slots and each holds the implementation of its
\* own operation: none is null, none holds another operation's function;
\* gpt_is_oc_irq holds v2_gpt_is_oc_irq.
C19_TableComplete ==
    \A d \in timers :
        /\ Cardinality(Slots) = 15
        /\ \A s \in Slots : v2_gpt_data[s] = OwnImpl[s]

\* --------------------------------------------- successive ic_setup calls
\* ic_setup with a valid channel and a valid mode
IcSetupCalls ==
    {c \in ApiCalls :
        /\ c.fn = "v2_gpt_ic_setup"
        /\ c.chan \in 1..V2_IM_NUM
        /\ ~GtU32(c.arg, V2_IM_MODE_BOTH)}

\* context 1 binds the device; then users in two contexts call ic_setup one
\* after the other, a call starting only when no other is running
NextTurns ==
    \E t \in Ctx :
        /\ \A u \in Ctx \ {t} : pc[u] = "idle"
        /\ \/ t = 1 /\ ProbeStep(t)
           \/ v2_gpt_setup_tctl(t, IcSetupCalls)
           \/ v2_gpt_oc_setup(t, IcSetupCalls)
           \/ v2_gpt_ic_setup(t, IcSetupCalls)
           \/ v2_gpt_ic_irq_enable(t, IcSetupCalls)
           \/ v2_gpt_enable(t, IcSetupCalls)
SpecTurns == Init /\ [][NextTurns]_vars

\* exactly two user calls have been made, ic_setup(c, m1) by t1 and
\* ic_setup(c, m2) by t2 on the same device, and both have returned
TwoIcSetups(t1, t2) ==
    /\ t1 # t2
    /\ ncalls = 2
    /\ \A t \in {t1, t2} :
          pc[t] = "idle" /\ fn[t] = "v2_gpt_ic_setup" /\ ret[t] = "void"
    /\ dev[t1] = dev[t2]
    /\ chan[t1] = chan[t2]
\* the lowest bit of channel c's mode field in the control register
ClaimImLo(c) == IF c = 1 THEN 16 ELSE 18
\* the control register as the bind leaves it (mode Both in channel 1's
\* field, Disabled in channel 2's)
BoundCR == {0, 3, 6, 8, 10, 16, 17}

\* C20 (amended): after ic_setup(c, m1) followed by ic_setup(c, m2) on a
\* bound device, channel c's mode field is the bitwise OR of m1, m2 and the
\* mode the field held before the first call, and the bits outside the field
\* are as they were before the first call.
C20_ModesAccumulate ==
    \A t1 \in Ctx, t2 \in Ctx :
        TwoIcSetups(t1, t2)
        => LET lo == ClaimImLo(chan[t1])
               fld == {lo, lo + 1}
           IN  /\ CR(dev[t1]) \cap fld
                     = (BoundCR \cap fld) \cup Shl(arg[t1] \cup arg[t2], lo)
               /\ CR(dev[t1]) \ fld = BoundCR \ fld
\* ic_setup(2, RisingEdge) and ic_setup(2, FallingEdge) have returned and
\* channel 2's field reads Both
C20_Witness ==
    /\ TwoIcSetups(1, 2)
    /\ chan[1] = 2 /\ arg[1] = U32(1) /\ arg[2] = U32(2)
    /\ CR(dev[1]) = BoundCR \cup {18, 19}
\* C20 (as claimed): after the two calls channel c's mode field is the
\* bitwise OR of m1 and m2, and the bits outside the field are unchanged.
C20_FieldIsOrOfTwo ==
    \A t1 \in Ctx, t2 \in Ctx :
        TwoIcSetups(t1, t2)
        => LET lo == ClaimImLo(chan[t1])
               fld == {lo, lo + 1}
           IN  /\ CR(dev[t1]) \cap fld = Shl(arg[t1] \cup arg[t2], lo)
               /\ CR(dev[t1]) \ fld = BoundCR \ fld

\* ------------------------------------- interrupt handlers and the lock
\* the operations that take icap_lock, called with channel 1 (the path
\* through the lock is the same for every valid channel)
LockCalls ==
    {c \in ApiCalls :
        /\ c.fn \in {"v2_gpt_oc_irq_enable", "v2_gpt_oc_irq_disable",
                      "v2_gpt_ic_irq_enable", "v2_gpt_ic_irq_disable"}
        /\ c.chan = 1}

\* mutant: the lock is taken with interrupts left on (plain spin_lock)
irqs_disabled_never(t) == FALSE
\* spin_lock_irqsave turns interrupt delivery off on the caller's core until
\* spin_unlock_irqrestore
irqs_disabled(t) == icap_lock = t

\* context t can take a step. Two contexts on one core are process-context
\* code (the lower) and an interrupt handler (the higher): the handler is
\* delivered only while interrupts are on, and the interrupted code does not
\* run until the handler has returned
CanRun(t) ==
    \A u \in Ctx \ {t} :
        cpu[u] = cpu[t]
        => IF t < u THEN pc[u] = "idle"
           ELSE pc[t] # "idle" \/ ~irqs_disabled(u)

\* the operations the sequencer or a LockCalls user enters
LockStep(t, U) ==
    \/ v2_gpt_setup_tctl(t, U)
    \/ v2_gpt_oc_setup(t, U)
    \/ v2_gpt_ic_setup(t, U)
    \/ v2_gpt_enable(t, U)
    \/ v2_gpt_oc_irq_enable(t, U)
    \/ v2_gpt_oc_irq_disable(t, U)
    \/ v2_gpt_ic_irq_enable(t, U)
    \/ v2_gpt_ic_irq_disable(t, U)

\* context 2 runs on another core, or is an interrupt handler on context 1's
InitIrq == Boot /\ cpu \in {c \in [Ctx -> {0, 1}] : c[1] = 0}
NextIrq ==
    \E t \in Ctx :
        /\ CanRun(t)
        /\ \/ t = 1 /\ ProbeStep(t)
           \/ LockStep(t, LockCalls)
\* a context that can run does (cores do not stop), and with finitely many
\* calls a waiter finds the lock free
SpecIrq ==
    /\ InitIrq
    /\ [][NextIrq]_vars
    /\ \A t \in Ctx : WF_vars(CanRun(t) /\ LockStep(t, LockCalls))

\* context t is inside one of the four operations, past its channel check
InLocked(t) ==
    /\ fn[t] \in {"v2_gpt_oc_irq_enable", "v2_gpt_oc_irq_disable",
                  "v2_gpt_ic_irq_enable", "v2_gpt_ic_irq_disable"}
    /\ pc[t] \in {"lock", "read", "write", "unlock"}

\* C21: a context inside oc_irq_enable, oc_irq_disable, ic_irq_enable or
\* ic_irq_disable eventually has returned and does not hold the lock, whether
\* the other context runs on another core or is an interrupt handler on the
\* same core.
C21_LockedCallsReturn ==
    \A t \in Ctx : InLocked(t) ~> (~InLocked(t) /\ icap_lock # t)
\* an interrupt handler on context 1's core is inside its critical section
\* while context 1 is inside a call of its own, before taking the lock
C21_Witness ==
    /\ cpu[1] = cpu[2]
    /\ InLocked(1) /\ pc[1] = "lock"
    /\ InLocked(2) /\ pc[2] = "write" /\ icap_lock = 2

\* the status bit the claims assign to an acknowledge call
ClaimSrBit(f, c) ==
    CASE f = "v2_gpt_irq_acknowledge" -> 5
      [] f = "v2_gpt_oc_irq_acknowledge" -> c - 1
      [] f = "v2_gpt_ic_irq_acknowledge" -> c + 2

\* C22 (as claimed): irq_acknowledge clears exactly the rollover flag,
\* oc_irq_acknowledge(c), c in 1..3, exactly output-compare flag c and
\* ic_irq_acknowledge(c), c in 1..2, exactly input-capture flag c of the
\* status register; every other status flag and every other register stay
\* as they were.
C22_AckOnlyOwnFlag ==
    [][ \A t \in Ctx :
          ( /\ Calling(t)
            /\ \/ fn'[t] = "v2_gpt_irq_acknowledge"
               \/ fn'[t] = "v2_gpt_oc_irq_acknowledge" /\ chan'[t] \in 1..3
               \/ fn'[t] = "v2_gpt_ic_irq_acknowledge" /\ chan'[t] \in 1..2 )
          => regs' = [regs EXCEPT ![dev'[t]][V2_REG_SR] =
                         @ \ {ClaimSrBit(fn'[t], chan'[t])}] ]_vars

\* C23: when setup has returned, the control register holds wait-enable and
\* the 24 MHz source selection and nothing else (run-enable clear, both
\* capture mode fields zero) and the prescaler register holds the rate
\* branch's divisor, whatever the registers held before; and when setup is
\* about to write the control value, both registers are zero.
C23_SetupFromZero ==
    \A t \in Ctx :
        /\ SetupDone(t)
           => /\ CR(dev[t]) = {3, 6, 8, 10}
              /\ regs[dev[t]][V2_REG_PR] \in {{12, 13, 14}, {13}}
        /\ (fn[t] = "v2_gpt_setup_tctl" /\ pc[t] = "tctl_cr")
           => CR(dev[t]) = {} /\ regs[dev[t]][V2_REG_PR] = {}
\* a user has called setup on a bound, running timer: it is stopped and its
\* capture modes are erased
C23_Witness ==
    /\ SetupDone(1) /\ pc[1] = "idle" /\ ncalls = 1
    /\ dev[1] \in timers
    /\ CR(dev[1]) = {3, 6, 8, 10}

\* contexts t1 and t2 have each made one call, the only two made, on the
\* same device, and both have returned
BothReturned(t1, t2) ==
    /\ t1 # t2
    /\ ncalls = 2
    /\ \A t \in {t1, t2} : pc[t] = "idle" /\ ret[t] = "void"
    /\ dev[t1] = dev[t2]

\* C24 (as claimed): when enable() and ic_setup(c, m), or ic_setup(1, m1)
\* and ic_setup(2, m2), run in two contexts on one device under any
\* interleaving, then once both have returned the control register has the
\* run-enable bit set and each mode programmed.
C24_NoLostControlUpdate ==
    \A t1 \in Ctx, t2 \in Ctx :
        /\ ( /\ BothReturned(t1, t2)
             /\ fn[t1] = "v2_gpt_enable"
             /\ fn[t2] = "v2_gpt_ic_setup" )
           => /\ 0 \in CR(dev[t1])
              /\ Shl(arg[t2], ClaimImLo(chan[t2])) \subseteq CR(dev[t1])
        /\ ( /\ BothReturned(t1, t2)
             /\ fn[t1] = "v2_gpt_ic_setup" /\ chan[t1] = 1
             /\ fn[t2] = "v2_gpt_ic_setup" /\ chan[t2] = 2 )
           => /\ Shl(arg[t1], 16) \subseteq CR(dev[t1])
              /\ Shl(arg[t2], 18) \subseteq CR(dev[t1])


\* ---------------------------------------------------------------------
\* The Himax HX8399C panel driver (panel-himax-hx8399c.c)
\* ---------------------------------------------------------------------

\* the timer driver's state, which no panel operation touches
gptvars ==
    <<regs, icap_lock, initialized, clk_rate, pc, fn, dev, chan, arg, val,
      ret, seq, imxtm, pret, held, timers, ncalls, succeeded, cpu>>

\* the commands hx8399c_enable issues, in program order: the init
\* sequence, then sleep-out, then display-on
hx8399c_cmds ==
    << "UD_CMD_SETEXTC", "UD_CMD_SETOFFSET", "UD_CMD_SETPOWER",
       "UD_CMD_SETDISP", "UD_CMD_SETCYC", "UD_CMD_SETGIP0",
       "UD_CMD_SETGIP1", "UD_CMD_SETGIP2", "UD_CMD_SETGIP3",
       "UD_CMD_SET_BANK", "UD_CMD_SETGIP3", "UD_CMD_SET_BANK",
       "UD_CMD_SETGIP3", "UD_CMD_SET_BANK", "UD_CMD_SETVCOM",
       "UD_CMD_SETGAMMA", "UD_CMD_SETPANEL",
       "mipi_dsi_dcs_exit_sleep_mode", "mipi_dsi_dcs_set_display_on" >>

\* the commands himax_panel_disable issues
disable_cmds ==
    << "mipi_dsi_dcs_set_display_off", "mipi_dsi_dcs_enter_sleep_mode" >>

\* what a DCS transfer returns: a negative errno, or the bytes transferred
DcsResults == {-EINVAL, 0, 1}
\* what mipi_dsi_attach, mipi_dsi_detach and of_property_read_u32 return
IntResults == {-EINVAL, 0}
\* what devm_gpiod_get_optional returns: an ERR_PTR, NULL (0), a descriptor
GpioGet == {-ENOENT, 0, 1}

\* gpiod_set_value_cansleep on ctx->reset: nothing when the descriptor is NULL
gpiod_set_value_cansleep(p, v) ==
    IF p.has_reset
    THEN [p EXCEPT !.gpio = v, !.writes = Append(@, v)]
    ELSE p

\* a panel function returns r: to shutdown when shutdown called it
\* (shutdown ignores the result and returns nothing), else to the caller
PanelReturn(p, r) ==
    IF p.shut /\ p.fn = "himax_panel_disable"
    THEN [p EXCEPT !.pc = "unprepare", !.fn = "himax_panel_unprepare",
                   !.ret = r]
    ELSE IF p.shut
    THEN [p EXCEPT !.pc = "idle", !.fn = "himax_panel_shutdown",
                   !.ret = 0, !.shut = FALSE]
    ELSE [p EXCEPT !.pc = "idle", !.ret = r]

\* the DRM core calls a himax_panel_funcs entry of a registered panel
PanelFuncs ==
    {"himax_panel_prepare", "himax_panel_unprepare", "himax_panel_enable",
     "himax_panel_disable"}
PanelEntry(f) ==
    CASE f = "himax_panel_prepare" -> "prepare"
      [] f = "himax_panel_unprepare" -> "unprepare"
      [] f = "himax_panel_enable" -> "enable"
      [] f = "himax_panel_disable" -> "disable"
PanelCall ==
    /\ panel.pc = "idle"
    /\ panel.registered
    /\ \E f \in PanelFuncs :
          panel' = [panel EXCEPT !.pc = PanelEntry(f), !.fn = f, !.ret = 0,
                                 !.step = 0, !.log = <<>>, !.writes = <<>>]
    /\ UNCHANGED gptvars

himax_panel_probe ==
    /\ \/ /\ panel.pc = "unbound"
          /\ \E match \in BOOLEAN, alloc \in BOOLEAN, lanes \in IntResults,
                reset \in GpioGet, backlight \in GpioGet :
                LET p0 == [NoPanel EXCEPT !.fn = "himax_panel_probe",
                                          !.gpio = panel.gpio]
                IN  panel' =
                      IF ~match THEN [p0 EXCEPT !.ret = -ENODEV]
                      ELSE IF ~alloc THEN [p0 EXCEPT !.ret = -ENOMEM]
                      ELSE IF lanes # 0 THEN [p0 EXCEPT !.ret = lanes]
                      ELSE IF IS_ERR(reset) THEN [p0 EXCEPT !.ret = reset]
                      ELSE IF IS_ERR(backlight)
                      THEN [p0 EXCEPT !.ret = backlight,
                                      !.gpio = IF reset # 0 THEN 0 ELSE @]
                      ELSE LET p1 == [p0 EXCEPT !.has_reset = reset # 0,
                                                !.gpio = IF reset # 0
                                                         THEN 0 ELSE @]
                           IN  [gpiod_set_value_cansleep(p1, 1) EXCEPT
                                   !.registered = TRUE, !.pc = "attach"]
       \/ /\ panel.pc = "attach"
          /\ \E r \in IntResults :
                panel' = [panel EXCEPT !.attached = (r = 0),
                                       !.registered = (r = 0),
                                       !.ret = 0, !.pc = "idle"]
    /\ UNCHANGED gptvars

himax_panel_prepare ==
    /\ panel.pc = "prepare"
    /\ panel' =
          IF panel.prepared THEN PanelReturn(panel, 0)
          ELSE PanelReturn([gpiod_set_value_cansleep(panel, 0) EXCEPT
                               !.prepared = TRUE], 0)
    /\ UNCHANGED gptvars

himax_panel_unprepare ==
    /\ \/ /\ panel.pc = "unprepare"
          /\ panel' =
                IF ~panel.prepared
                THEN [gpiod_set_value_cansleep(panel, 1) EXCEPT
                         !.pc = "unprepare_wait"]
                ELSE PanelReturn([panel EXCEPT !.prepared = FALSE], 0)
       \/ /\ panel.pc = "unprepare_wait"
          /\ panel' = PanelReturn([gpiod_set_value_cansleep(panel, 0) EXCEPT
                                      !.prepared = FALSE], 0)
    /\ UNCHANGED gptvars

\* himax_panel_enable calls ctx->pdata->enable, which is hx8399c_enable
himax_panel_enable ==
    /\ panel.pc = "enable"
    /\ panel' = IF panel.enabled THEN PanelReturn(panel, 0)
                ELSE [panel EXCEPT !.pc = "cmd", !.step = 1]
    /\ UNCHANGED gptvars

\* "if (ret < 0) goto fail"
hx8399c_failed_never(r) == FALSE
hx8399c_failed(r) == r < 0

hx8399c_enable ==
    /\ panel.fn = "himax_panel_enable"
    /\ \/ /\ panel.pc = "cmd"
          /\ \E r \in DcsResults :
                panel' = [panel EXCEPT
                    !.log = Append(@, hx8399c_cmds[panel.step]),
                    !.ret = r,
                    !.step = IF hx8399c_failed(r) THEN @ ELSE @ + 1,
                    !.pc = IF hx8399c_failed(r) THEN "fail"
                           ELSE IF panel.step = Len(hx8399c_cmds) THEN "done"
                           ELSE "cmd"]
       \/ /\ panel.pc = "done"
          /\ panel' = PanelReturn([panel EXCEPT !.enabled = TRUE], 0)
       \/ /\ panel.pc = "fail"
          /\ panel' = PanelReturn(gpiod_set_value_cansleep(panel, 1),
                                  panel.ret)
    /\ UNCHANGED gptvars

himax_panel_disable ==
    /\ panel.fn = "himax_panel_disable"
    /\ \/ /\ panel.pc = "disable"
          /\ panel' = IF ~panel.enabled THEN PanelReturn(panel, 0)
                      ELSE [panel EXCEPT !.pc = "off", !.step = 1]
       \/ /\ panel.pc = "off"
          /\ \E r \in DcsResults :
                LET p == [panel EXCEPT
                             !.log = Append(@, disable_cmds[panel.step]),
                             !.ret = r]
                IN  panel' =
                      IF r < 0 THEN PanelReturn(p, r)
                      ELSE IF panel.step = Len(disable_cmds)
                      THEN PanelReturn([p EXCEPT !.enabled = FALSE], 0)
                      ELSE [p EXCEPT !.step = @ + 1]
    /\ UNCHANGED gptvars

himax_panel_remove ==
    /\ panel.pc = "idle"
    /\ \E r \in IntResults :
          panel' = [NoPanel EXCEPT !.fn = "himax_panel_remove",
                                   !.gpio = panel.gpio,
                                   !.attached = panel.attached /\ r # 0]
    /\ UNCHANGED gptvars

\* himax_panel_shutdown: himax_panel_disable, then himax_panel_unprepare
himax_panel_shutdown ==
    /\ panel.pc = "idle"
    /\ panel' = [panel EXCEPT !.pc = "disable", !.fn = "himax_panel_disable",
                              !.shut = TRUE, !.ret = 0, !.step = 0,
                              !.log = <<>>, !.writes = <<>>]
    /\ UNCHANGED gptvars

NextPanel ==
    \/ himax_panel_probe
    \/ PanelCall
    \/ himax_panel_prepare
    \/ himax_panel_unprepare
    \/ himax_panel_enable
    \/ hx8399c_enable
    \/ himax_panel_disable
    \/ himax_panel_remove
    \/ himax_panel_shutdown

SpecPanel == Init /\ [][NextPanel]_vars


\* ---------------------------------------------------------------------
\* Claims about the panel driver
\* ---------------------------------------------------------------------

\* the running hx8399c_enable call issues one more command in this step
EnableSends ==
    /\ panel.fn = "himax_panel_enable"
    /\ Len(panel'.log) = Len(panel.log) + 1
\* the running hx8399c_enable call returns to its caller in this step
EnableReturns ==
    /\ panel.fn = "himax_panel_enable"
    /\ panel.pc # "idle"
    /\ panel'.pc = "idle"

\* C25: hx8399c_enable sets enabled only after all init commands, then
\* sleep-out, then display-on have succeeded in that order; a command is
\* sent only when every earlier one succeeded; after a failure the reset
\* line (when the panel has one) is driven to 1, the failing command's
\* error code is returned and enabled stays false; a call on an already
\* enabled panel sends nothing and returns 0.
C25_EnableAllOrNothing ==
    [][/\ (panel'.enabled /\ ~panel.enabled) =>
              /\ panel.fn = "himax_panel_enable"
              /\ panel.log = hx8399c_cmds
              /\ panel.ret >= 0
              /\ panel'.ret = 0
       /\ EnableSends =>
              /\ panel'.log = SubSeq(hx8399c_cmds, 1, Len(panel'.log))
              /\ panel.log # <<>> => panel.ret >= 0
       /\ (EnableReturns /\ panel.ret < 0) =>
              /\ panel'.ret = panel.ret
              /\ ~panel'.enabled
              /\ panel'.log = panel.log
              /\ panel.has_reset =>
                    panel'.gpio = 1 /\ panel'.writes = <<1>>
       /\ (EnableReturns /\ panel.enabled) =>
              /\ panel'.log = <<>>
              /\ panel'.writes = <<>>
              /\ panel'.ret = 0
              /\ panel'.enabled
      ]_vars

\* a call failed at sleep-out, after the whole init sequence, and returned
C25_Witness ==
    /\ panel.fn = "himax_panel_enable"
    /\ panel.pc = "idle"
    /\ panel.ret = -EINVAL
    /\ Len(panel.log) = Len(hx8399c_cmds) - 1
    /\ panel.has_reset
    /\ panel.gpio = 1
    /\ ~panel.enabled


\* C26: himax_panel_unprepare on a prepared panel pulses the reset line
\* (drives 1, waits, drives 0) and clears prepared; on a panel that is not
\* prepared it drives no GPIO; himax_panel_prepare on a prepared panel
\* drives no GPIO and returns 0.
C26_UnpreparePulsesWhenPrepared ==
    [][/\ (panel.pc = "unprepare" /\ panel.prepared /\ panel.has_reset) =>
              panel'.writes = Append(panel.writes, 1)
       /\ (panel.pc = "unprepare_wait" /\ panel.has_reset) =>
              /\ panel'.writes = Append(panel.writes, 0)
              /\ ~panel'.prepared
       /\ (panel.pc = "unprepare" /\ ~panel.prepared) =>
              panel'.writes = panel.writes
       /\ (panel.pc = "prepare" /\ panel.prepared) =>
              /\ panel'.writes = panel.writes
              /\ panel'.pc = "idle"
              /\ panel'.ret = 0
      ]_vars


\* himax_panel_probe has returned and nothing was called since
ProbeReturned ==
    /\ panel.fn = "himax_panel_probe"
    /\ panel.pc \in {"idle", "unbound"}

\* C27: when mipi_dsi_attach fails in himax_panel_probe the panel is taken
\* out of the panel registry and probe returns the failure; probe returns 0
\* only with the panel registered and attached.
C27_ProbeReportsAttachFailure ==
    /\ (ProbeReturned /\ panel.ret = 0) =>
            panel.registered /\ panel.attached
    /\ (ProbeReturned /\ ~panel.attached) =>
            ~panel.registered /\ panel.ret # 0


\* C28: over every sequence of probe, prepare, enable, disable, unprepare
\* and shutdown calls, with any DSI command free to fail, a panel with a
\* reset line is sent init commands, and gets enabled set, only while that
\* line is at 0: once probe or a failed enable has driven it to 1, no enable
\* sends a command or succeeds before a prepare has driven it back to 0.
C28_CommandsOnlyOutOfReset ==
    [][/\ (EnableSends /\ panel.has_reset) => panel.gpio = 0
       /\ (panel'.enabled /\ ~panel.enabled /\ panel.has_reset) =>
              panel.gpio = 0
      ]_vars

====
